---- MODULE Spec2Model ----
(***************************************************************************)
(* Ingestion and retention engine of the chemical equipment parameter      *)
(* visualizer backend (backend/api): CSV validation, outlier flags, the    *)
(* transactional creation of a Dataset with its Equipment rows, and the    *)
(* post_save hook that keeps the five most recent Datasets.                *)
(*                                                                         *)
(* Numbers are integers (the CSV cells used are integer numerals); a       *)
(* float that may be missing (NaN / None) is a sequence of length 0 or 1,  *)
(* and a stored average is an exact fraction <<numerator, denominator>>.   *)
(***************************************************************************)
EXTENDS Integers, Sequences, FiniteSets, TLC

VARIABLES
    datasets,       \* committed rows of the Dataset table
    equipment,      \* committed rows of the Equipment table
    clock,          \* last value read from the wall clock (timezone.now())
    next_id,        \* number of primary keys handed out so far (uuid4 is fresh)
    pc,             \* position of each upload request inside create_dataset_from_csv
    txn,            \* locals and uncommitted writes of each upload request
    ingests_done,   \* number of upload requests that returned a Dataset
    csv_file,       \* SpecCsv: the file handed to validate_csv
    csv_result,     \* SpecCsv: what validate_csv returned or raised
    det_values,     \* SpecDetect: the column handed to detect_outliers
    det_threshold,  \* SpecDetect: the threshold handed to detect_outliers
    det_result      \* SpecDetect: what detect_outliers returned

detect_vars == <<det_values, det_threshold, det_result>>

vars == <<datasets, equipment, clock, next_id, pc, txn, ingests_done,
          csv_file, csv_result, detect_vars>>

-----------------------------------------------------------------------------
\* Bounds of the model

\* longest file (data rows) an upload request sends in Spec
MaxRows == 1
\* longest file (data rows) an upload request sends in SpecIngest
MaxFileRows == 3
\* number of upload requests that reach Dataset.objects.create in SpecIngest
MaxUploads == 2
\* longest file (data rows) handed to validate_csv on its own
MaxCsvRows == 3
\* number of Dataset rows committed in Spec
MaxIngests == 6
\* largest wall-clock reading
MaxClock == 1
\* longest file (data rows) of SpecType
MaxTypeRows == 3
\* longest file (data rows) an upload request sends in SpecEquipment
MaxEquipmentRows == 1
\* longest column handed to detect_outliers on its own
MaxValues == 5
\* longest file (data rows) an upload request sends in SpecEdit
MaxEditRows == 2

-----------------------------------------------------------------------------
\* Small helpers

Range(s) == {s[i] : i \in DOMAIN s}

SeqsUpTo(S, n) == UNION {[1..k -> S] : k \in 0..n}

RECURSIVE SumSeq(_)
SumSeq(s) == IF s = <<>> THEN 0 ELSE Head(s) + SumSeq(Tail(s))

Min(a, b) == IF a < b THEN a ELSE b

\* a / n rounded to the nearest integer, halves to the even neighbour
RoundHalfEven(a, n) ==
    LET q == a \div n
        r == a % n
    IN  IF 2 * r < n THEN q
        ELSE IF 2 * r > n THEN q + 1
        ELSE IF q % 2 = 0 THEN q ELSE q + 1

\* Python's round(x, 2) of the fraction sum / n, as an exact fraction
Round2(sum, n) == <<RoundHalfEven(100 * sum, n), 100>>

-----------------------------------------------------------------------------
\* CSV files

REQUIRED_COLUMNS == <<"Equipment Name", "Type", "Flowrate", "Pressure", "Temperature">>

numeric_columns == <<"Flowrate", "Pressure", "Temperature">>

valid_types == {"Pump", "Compressor", "Valve", "HeatExchanger", "Reactor",
                "Condenser", "Tank", "Other"}

\* the missing value of pandas
NaN == <<>>

\* the numerals that appear in the files of the model
NumberTexts ==
    ("-5" :> -5) @@ ("0" :> 0) @@ ("1" :> 1) @@ ("3" :> 3) @@ ("10" :> 10) @@ ("100" :> 100)

\* pd.to_numeric(cell, errors='coerce') zero-filling what it cannot parse
ToNumericZeroFill(text) ==
    IF text \in DOMAIN NumberTexts THEN <<NumberTexts[text]>> ELSE <<0>>

\* pd.to_numeric(cell, errors='coerce'): the number, or NaN for other text
ToNumeric(text) ==
    IF text \in DOMAIN NumberTexts THEN <<NumberTexts[text]>> ELSE NaN

\* A file is undecodable bytes, zero bytes, or a header line and data rows;
\* a data row maps each header column to the text of its cell.
UndecodableFile == [kind |-> "undecodable", header |-> {}, rows |-> <<>>]

ZeroByteFile == [kind |-> "zero_bytes", header |-> {}, rows |-> <<>>]

RowsOver(header, cells) ==
    {[c \in header |->
        CASE c = "Equipment Name" -> name
          [] c = "Type" -> type
          [] c = "Flowrate" -> flowrate
          [] c = "Pressure" -> pressure
          [] c = "Temperature" -> temperature] :
        name \in cells["Equipment Name"], type \in cells["Type"],
        flowrate \in cells["Flowrate"], pressure \in cells["Pressure"],
        temperature \in cells["Temperature"]}

TableFiles(headers, cells, maxRows) ==
    UNION {{[kind |-> "table", header |-> h, rows |-> rs] :
                rs \in SeqsUpTo(RowsOver(h, cells), maxRows)} : h \in headers}

-----------------------------------------------------------------------------
\* DatasetService.validate_csv

Raised(message, columns) ==
    [ok |-> FALSE, message |-> message, columns |-> columns, df |-> <<>>]

Returned(df) ==
    [ok |-> TRUE, message |-> "", columns |-> <<>>, df |-> df]

\* pd.read_csv: the data rows, labelled 0, 1, 2, ... in file order
read_csv(file) ==
    [i \in 1..Len(file.rows) |-> [idx |-> i - 1, row |-> file.rows[i]]]

\* the missing columns, reporting only the first one
missing_cols_first(header) ==
    LET all == SelectSeq(REQUIRED_COLUMNS, LAMBDA col : col \notin header)
    IN  IF all = <<>> THEN <<>> ELSE <<Head(all)>>

\* [col for col in REQUIRED_COLUMNS if col not in df.columns]
missing_cols(header) ==
    SelectSeq(REQUIRED_COLUMNS, LAMBDA col : col \notin header)

\* df[col] = pd.to_numeric(df[col], errors='coerce') for the numeric columns
coerce_numeric(df) ==
    [i \in DOMAIN df |->
        [df[i] EXCEPT !.row =
            [c \in DOMAIN @ |->
                IF c \in Range(numeric_columns) THEN ToNumeric(@[c]) ELSE @[c]]]]

\* df.dropna(subset=numeric_columns): the rows keep their labels
dropna(df) ==
    SelectSeq(df, LAMBDA r : \A c \in Range(numeric_columns) : r.row[c] # NaN)

\* df.loc[~df['Type'].isin(valid_types), 'Type'] = 'Other'
\* the Type text kept as it was read
map_invalid_types_keeps_text(df) == df

map_invalid_types(df) ==
    [i \in DOMAIN df |->
        [df[i] EXCEPT !.row["Type"] = IF @ \in valid_types THEN @ ELSE "Other"]]

validate_csv(file) ==
    IF file.kind = "undecodable"
    THEN Raised("Invalid file encoding (expected UTF-8)", <<>>)
    ELSE IF file.kind = "zero_bytes"
    THEN Raised("CSV file is empty", <<>>)
    ELSE IF missing_cols(file.header) # <<>>
    THEN Raised("CSV validation failed: Missing required columns: ",
                missing_cols(file.header))
    ELSE LET df == dropna(coerce_numeric(read_csv(file)))
         IN  IF df = <<>>
             THEN Raised("CSV validation failed: No valid data rows found after cleaning", <<>>)
             ELSE Returned(map_invalid_types(df))

-----------------------------------------------------------------------------
\* DatasetService.detect_outliers

threshold_default == 2

\* detect_outliers returning early for fewer than 2 values only
detect_outliers_min_two(values, threshold) ==
    LET n == Len(values)
        S == SumSeq(values)
        Q == SumSeq([i \in 1..n |-> values[i] * values[i]])
    IN  IF n < 2 THEN [i \in 1..n |-> FALSE]
        ELSE IF n * Q - S * S = 0 THEN [i \in 1..n |-> FALSE]
        ELSE [i \in 1..n |->
                (n * values[i] - S) * (n * values[i] - S) * (n - 1)
                    > threshold * threshold * n * (n * Q - S * S)]

\* detect_outliers without the std == 0 test, returning ~(z_scores <= threshold):
\* the z-scores of a column without spread are 0/0 = NaN, and no NaN is <= threshold
detect_outliers_nan_flagged(values, threshold) ==
    LET n == Len(values)
        S == SumSeq(values)
        Q == SumSeq([i \in 1..n |-> values[i] * values[i]])
    IN  IF n < 3 THEN [i \in 1..n |-> FALSE]
        ELSE IF n * Q - S * S = 0 THEN [i \in 1..n |-> TRUE]
        ELSE [i \in 1..n |->
                (n * values[i] - S) * (n * values[i] - S) * (n - 1)
                    > threshold * threshold * n * (n * Q - S * S)]

\* detect_outliers dividing by the variance instead of the standard deviation
\* of the squared deviation: (x - mean)^2 / std^2 > threshold
detect_outliers_squared_z(values, threshold) ==
    LET n == Len(values)
        S == SumSeq(values)
        Q == SumSeq([i \in 1..n |-> values[i] * values[i]])
    IN  IF n < 3 THEN [i \in 1..n |-> FALSE]
        ELSE IF n * Q - S * S = 0 THEN [i \in 1..n |-> FALSE]
        ELSE [i \in 1..n |->
                (n * values[i] - S) * (n * values[i] - S) * (n - 1)
                    > threshold * n * (n * Q - S * S)]

\* detect_outliers dividing by the standard error of the mean, std / sqrt(n)
detect_outliers_standard_error(values, threshold) ==
    LET n == Len(values)
        S == SumSeq(values)
        Q == SumSeq([i \in 1..n |-> values[i] * values[i]])
    IN  IF n < 3 THEN [i \in 1..n |-> FALSE]
        ELSE IF n * Q - S * S = 0 THEN [i \in 1..n |-> FALSE]
        ELSE [i \in 1..n |->
                (n * values[i] - S) * (n * values[i] - S) * (n - 1)
                    > threshold * threshold * (n * Q - S * S)]

\* detect_outliers with np.std(values), the population standard deviation:
\* std^2 = (n*Q - S^2) / n^2
detect_outliers_population_std(values, threshold) ==
    LET n == Len(values)
        S == SumSeq(values)
        Q == SumSeq([i \in 1..n |-> values[i] * values[i]])
    IN  IF n < 3 THEN [i \in 1..n |-> FALSE]
        ELSE IF n * Q - S * S = 0 THEN [i \in 1..n |-> FALSE]
        ELSE [i \in 1..n |->
                (n * values[i] - S) * (n * values[i] - S)
                    > threshold * threshold * (n * Q - S * S)]

\* z_scores > threshold, with mean = S/n and std^2 = (n*Q - S^2) / (n*(n-1)):
\* |x - S/n| / std > t  <=>  (n*x - S)^2 * (n-1) > t^2 * n * (n*Q - S^2)
detect_outliers(values, threshold) ==
    LET n == Len(values)
        S == SumSeq(values)
        Q == SumSeq([i \in 1..n |-> values[i] * values[i]])
    IN  IF n < 3 THEN [i \in 1..n |-> FALSE]
        ELSE IF n * Q - S * S = 0 THEN [i \in 1..n |-> FALSE]
        ELSE [i \in 1..n |->
                (n * values[i] - S) * (n * values[i] - S) * (n - 1)
                    > threshold * threshold * n * (n * Q - S * S)]

-----------------------------------------------------------------------------
\* validate_csv on its own

\* the numbers of the columns and the thresholds handed to detect_outliers
DetectValues == {10, 55, 100}

DetectThresholds == {0, 1, threshold_default}

NotDetected == [done |-> FALSE, outliers |-> <<>>]

DetectNotRun ==
    /\ det_values = <<>>
    /\ det_threshold = threshold_default
    /\ det_result = NotDetected

CsvCells ==
    [c \in Range(REQUIRED_COLUMNS) |->
        CASE c = "Equipment Name" -> {"P-1"}
          [] c = "Type" -> {"Pump", "sprinkler"}
          [] c = "Flowrate" -> {"1", "abc"}
          [] c = "Pressure" -> {"3", ""}
          [] c = "Temperature" -> {"10"}]

CsvFiles(maxRows) ==
    {UndecodableFile, ZeroByteFile}
        \cup TableFiles(SUBSET Range(REQUIRED_COLUMNS), CsvCells, maxRows)

NotRun == [ok |-> FALSE, message |-> "not run", columns |-> <<>>, df |-> <<>>]

NoProcs == <<>>

CsvInit ==
    /\ datasets = {}
    /\ equipment = {}
    /\ clock = 0
    /\ next_id = 0
    /\ pc = NoProcs
    /\ txn = NoProcs
    /\ ingests_done = 0
    /\ csv_file \in CsvFiles(MaxCsvRows)
    /\ csv_result = NotRun
    /\ DetectNotRun

RunValidateCsv ==
    /\ csv_result = NotRun
    /\ csv_result' = validate_csv(csv_file)
    /\ UNCHANGED <<datasets, equipment, clock, next_id, pc, txn, ingests_done,
                   csv_file, detect_vars>>

CsvNext == RunValidateCsv

SpecCsv == CsvInit /\ [][CsvNext]_vars

\* files that differ in the spelling of the Type cell only
TypeCells ==
    [c \in Range(REQUIRED_COLUMNS) |->
        CASE c = "Equipment Name" -> {"P-1"}
          [] c = "Type" -> {"Pump", "pump", "PUMP", " Pump ", "sprinkler"}
          [] c = "Flowrate" -> {"1"}
          [] c = "Pressure" -> {"3"}
          [] c = "Temperature" -> {"10"}]

TypeFiles(maxRows) == TableFiles({Range(REQUIRED_COLUMNS)}, TypeCells, maxRows)

TypeInit ==
    /\ datasets = {}
    /\ equipment = {}
    /\ clock = 0
    /\ next_id = 0
    /\ pc = NoProcs
    /\ txn = NoProcs
    /\ ingests_done = 0
    /\ csv_file \in TypeFiles(MaxTypeRows)
    /\ csv_result = NotRun
    /\ DetectNotRun

\* validate_csv on files with differently spelled Type cells
SpecType == TypeInit /\ [][CsvNext]_vars

-----------------------------------------------------------------------------
\* detect_outliers on its own

DetectInit ==
    /\ datasets = {}
    /\ equipment = {}
    /\ clock = 0
    /\ next_id = 0
    /\ pc = NoProcs
    /\ txn = NoProcs
    /\ ingests_done = 0
    /\ csv_file = ZeroByteFile
    /\ csv_result = NotRun
    /\ det_values \in SeqsUpTo(DetectValues, MaxValues)
    /\ det_threshold \in DetectThresholds
    /\ det_result = NotDetected

RunDetectOutliers ==
    /\ det_result = NotDetected
    /\ det_result' = [done |-> TRUE, outliers |-> detect_outliers(det_values, det_threshold)]
    /\ UNCHANGED <<datasets, equipment, clock, next_id, pc, txn, ingests_done,
                   csv_file, csv_result, det_values, det_threshold>>

DetectNext == RunDetectOutliers

SpecDetect == DetectInit /\ [][DetectNext]_vars

-----------------------------------------------------------------------------
\* The database as one upload request sees it

\* the upload requests (Spec runs them one at a time)
Uploaders == {1}

NoTxn ==
    [file |-> ZeroByteFile, df |-> <<>>, dataset_id |-> 0,
     equipment_objects |-> <<>>,
     created |-> {}, deleted |-> {}, inserted_eq |-> {}, deleted_eq |-> {},
     keep |-> {}, outcome |-> "none"]

\* Dataset rows a statement of the transaction reads: committed rows and its
\* own uncommitted writes
VisibleDatasets(t) == {d \in datasets \cup t.created : d.id \notin t.deleted}

VisibleEquipment(t) == {e \in equipment \cup t.inserted_eq : e.id \notin t.deleted_eq}

Pending(t) ==
    [datasets |-> VisibleDatasets(t), equipment |-> VisibleEquipment(t)]

NoWrites(t) ==
    [t EXCEPT !.created = {}, !.deleted = {}, !.inserted_eq = {}, !.deleted_eq = {}]

\* every statement is committed on its own (no enclosing atomic block)
CommitsAtEveryStatement(step) == TRUE

\* @transaction.atomic: the writes of create_dataset_from_csv become durable
\* and visible to other connections only when the function returns
CommitsAt(step) == step = "commit"

\* an exception leaves the earlier writes of the request in the tables
RollbackKeepsWrites(t) == Pending(t)

\* @transaction.atomic: an exception leaving the function discards its writes
Rollback(t) == [datasets |-> datasets, equipment |-> equipment]

\* one statement (or the exit of the atomic block) of request p
Write(p, step, t) ==
    IF CommitsAt(step)
    THEN /\ datasets' = VisibleDatasets(t)
         /\ equipment' = VisibleEquipment(t)
         /\ txn' = [txn EXCEPT ![p] = NoWrites(t)]
    ELSE /\ UNCHANGED <<datasets, equipment>>
         /\ txn' = [txn EXCEPT ![p] = t]

\* an exception leaves the atomic block; the primary key of a Dataset row that
\* was never committed was seen by nobody, and the model hands it out again
Fail(p, error) ==
    /\ datasets' = Rollback(txn[p]).datasets
    /\ equipment' = Rollback(txn[p]).equipment
    /\ txn' = [txn EXCEPT ![p] = [NoWrites(@) EXCEPT !.outcome = error]]
    /\ pc' = [pc EXCEPT ![p] = "idle"]
    /\ next_id' = IF txn[p].dataset_id = next_id THEN next_id - 1 ELSE next_id

-----------------------------------------------------------------------------
\* maintain_dataset_limit (post_save hook of Dataset)

KeepLimit == 5

\* the hook keeping one row more than the limit
datasets_to_keep_off_by_one(rows) ==
    {keep \in SUBSET rows :
        /\ Cardinality(keep) = Min(KeepLimit + 1, Cardinality(rows))
        /\ \A a \in keep, b \in rows \ keep : a.uploaded_at >= b.uploaded_at}

\* Dataset.objects.order_by('-uploaded_at')[:5]: rows with equal uploaded_at
\* come in whatever order the database scans them, so every choice of five
\* rows that no excluded row is newer than is a possible result
datasets_to_keep(rows) ==
    {keep \in SUBSET rows :
        /\ Cardinality(keep) = Min(KeepLimit, Cardinality(rows))
        /\ \A a \in keep, b \in rows \ keep : a.uploaded_at >= b.uploaded_at}

\* Dataset.objects.exclude(id__in=keep).delete() with on_delete=CASCADE:
\* the transaction after the hook deleted every row outside keep
maintain_dataset_limit(t, created, keep) ==
    IF ~created THEN t
    ELSE LET gone == {d.id : d \in VisibleDatasets(t) \ keep}
         IN  [t EXCEPT !.deleted = @ \cup gone,
                       !.deleted_eq = @ \cup {e.id : e \in {x \in VisibleEquipment(t) :
                                                               x.dataset \in gone}}]

-----------------------------------------------------------------------------
\* cleanup_old_datasets (management command)

\* the values of --limit the command is run with
CleanupLimits == {0, 2, KeepLimit}

\* the command deleting the limit oldest rows
datasets_to_delete_oldest(rows, limit) ==
    {gone \in SUBSET rows :
        /\ Cardinality(gone) = Min(limit, Cardinality(rows))
        /\ \A a \in rows \ gone, b \in gone : a.uploaded_at >= b.uploaded_at}

\* Dataset.objects.exclude(id__in=[d.id for d in datasets_to_keep]) with
\* datasets_to_keep = Dataset.objects.order_by('-uploaded_at')[:limit]: the
\* rows outside each possible choice of the limit newest rows
datasets_to_delete(rows, limit) ==
    {rows \ keep : keep \in
        {k \in SUBSET rows :
            /\ Cardinality(k) = Min(limit, Cardinality(rows))
            /\ \A a \in k, b \in rows \ k : a.uploaded_at >= b.uploaded_at}}

\* Command.handle, run while no upload is in flight; with --dry-run, or with
\* nothing to delete, it only prints
cleanup_old_datasets(limit, dry_run) ==
    /\ \A p \in DOMAIN pc : pc[p] = "idle"
    /\ \E gone \in datasets_to_delete(datasets, limit) :
          LET count == Cardinality(gone)
          IN  IF count = 0 \/ dry_run
              THEN UNCHANGED <<datasets, equipment>>
              ELSE /\ datasets' = datasets \ gone
                   /\ equipment' = {e \in equipment : \A d \in gone : e.dataset # d.id}
    /\ UNCHANGED <<clock, next_id, pc, txn, ingests_done, csv_file, csv_result, detect_vars>>

-----------------------------------------------------------------------------
\* DatasetService.create_dataset_from_csv

Column(df, col) == [i \in DOMAIN df |-> df[i].row[col][1]]

\* total_equipment taken from the last row label
stats_from_last_label(df) ==
    [total_equipment |-> df[Len(df)].idx,
     avg_flowrate |-> Round2(SumSeq(Column(df, "Flowrate")), Len(df)),
     avg_pressure |-> Round2(SumSeq(Column(df, "Pressure")), Len(df)),
     avg_temperature |-> Round2(SumSeq(Column(df, "Temperature")), Len(df))]

\* len(df) and the three round(df[col].mean(), 2)
stats(df) ==
    [total_equipment |-> Len(df),
     avg_flowrate |-> Round2(SumSeq(Column(df, "Flowrate")), Len(df)),
     avg_pressure |-> Round2(SumSeq(Column(df, "Pressure")), Len(df)),
     avg_temperature |-> Round2(SumSeq(Column(df, "Temperature")), Len(df))]

\* the files upload requests send
UploadCells ==
    [c \in Range(REQUIRED_COLUMNS) |->
        CASE c = "Equipment Name" -> {"P-1"}
          [] c = "Type" -> {"Pump"}
          [] c = "Flowrate" -> {"1", "abc"}
          [] c = "Pressure" -> {"3"}
          [] c = "Temperature" -> {"10"}]

UploadFiles(maxRows) ==
    {ZeroByteFile} \cup TableFiles({Range(REQUIRED_COLUMNS)}, UploadCells, maxRows)

\* df = DatasetService.validate_csv(file)
Validate(p, files, cap) ==
    /\ pc[p] = "idle"
    /\ next_id < cap
    /\ \E file \in files :
          LET r == validate_csv(file)
          IN  IF r.ok
              THEN /\ txn' = [txn EXCEPT ![p] = [NoTxn EXCEPT !.file = file, !.df = r.df,
                                                              !.outcome = "running"]]
                   /\ pc' = [pc EXCEPT ![p] = "validated"]
              ELSE /\ txn' = [txn EXCEPT ![p] = [NoTxn EXCEPT !.file = file,
                                                              !.outcome = "CSVValidationError"]]
                   /\ pc' = pc
    /\ UNCHANGED <<datasets, equipment, clock, next_id, ingests_done, csv_file, csv_result, detect_vars>>

\* dataset = Dataset.objects.create(filename=filename, **stats), which stamps
\* uploaded_at from the clock and runs the post_save hook before returning
CreateDataset(p) ==
    /\ pc[p] = "validated"
    /\ \E now \in {clock, clock + 1} :
          /\ now <= MaxClock
          /\ LET st == stats(txn[p].df)
                 dataset == [id |-> next_id + 1, uploaded_at |-> now,
                             total_equipment |-> st.total_equipment,
                             avg_flowrate |-> st.avg_flowrate,
                             avg_pressure |-> st.avg_pressure,
                             avg_temperature |-> st.avg_temperature]
                 t1 == [txn[p] EXCEPT !.created = {dataset}, !.dataset_id = dataset.id]
             IN  \E keep \in datasets_to_keep(VisibleDatasets(t1)) :
                    Write(p, "create", maintain_dataset_limit(t1, TRUE, keep))
          /\ clock' = now
    /\ next_id' = next_id + 1
    /\ pc' = [pc EXCEPT ![p] = "created"]
    /\ UNCHANGED <<ingests_done, csv_file, csv_result, detect_vars>>

\* Dataset.objects.create up to the first statement of the post_save hook, as
\* concurrent requests see it: the INSERT, and list(datasets_to_keep), the
\* SELECT of the five newest rows among the committed rows and the new one
InsertDataset(p) ==
    /\ pc[p] = "validated"
    /\ \E now \in {clock, clock + 1} :
          /\ now <= MaxClock
          /\ LET st == stats(txn[p].df)
                 dataset == [id |-> next_id + 1, uploaded_at |-> now,
                             total_equipment |-> st.total_equipment,
                             avg_flowrate |-> st.avg_flowrate,
                             avg_pressure |-> st.avg_pressure,
                             avg_temperature |-> st.avg_temperature]
                 t1 == [txn[p] EXCEPT !.created = {dataset}, !.dataset_id = dataset.id]
             IN  \E keep \in datasets_to_keep(VisibleDatasets(t1)) :
                    Write(p, "create", [t1 EXCEPT !.keep = keep])
          /\ clock' = now
    /\ next_id' = next_id + 1
    /\ pc' = [pc EXCEPT ![p] = "selected"]
    /\ UNCHANGED <<ingests_done, csv_file, csv_result, detect_vars>>

\* the second statement of the hook, Dataset.objects.exclude(id__in=...).delete():
\* it deletes every row outside the list read before that the request sees
\* now, rows that other requests committed since then included (READ
\* COMMITTED; a row another request has deleted but not committed is locked,
\* and deleting it waits and then finds it gone, which ends in the same tables)
HookDelete(p) ==
    /\ pc[p] = "selected"
    /\ Write(p, "delete", maintain_dataset_limit(txn[p], TRUE, txn[p].keep))
    /\ pc' = [pc EXCEPT ![p] = "created"]
    /\ UNCHANGED <<clock, next_id, ingests_done, csv_file, csv_result, detect_vars>>

\* the list comprehension over df.iterrows(): idx is the row's label, and it
\* indexes the detector's arrays, which are numbered by position from 0
equipment_objects(df, dataset_id) ==
    LET pressure_outliers == detect_outliers(Column(df, "Pressure"), threshold_default)
        temperature_outliers == detect_outliers(Column(df, "Temperature"), threshold_default)
    IN  IF \E i \in DOMAIN df : df[i].idx >= Len(df)
        THEN [error |-> "IndexError", objects |-> <<>>]
        ELSE [error |-> "",
              objects |->
                [i \in DOMAIN df |->
                    [id |-> <<dataset_id, i>>,
                     dataset |-> dataset_id,
                     equipment_name |-> df[i].row["Equipment Name"],
                     equipment_type |-> df[i].row["Type"],
                     flowrate |-> df[i].row["Flowrate"][1],
                     pressure |-> df[i].row["Pressure"][1],
                     temperature |-> df[i].row["Temperature"][1],
                     is_pressure_outlier |-> pressure_outliers[df[i].idx + 1],
                     is_temperature_outlier |-> temperature_outliers[df[i].idx + 1]]]]

\* detect_outliers twice, the comprehension, and Equipment.objects.bulk_create
BulkCreateEquipment(p) ==
    /\ pc[p] = "created"
    /\ LET built == equipment_objects(txn[p].df, txn[p].dataset_id)
       IN  IF built.error # ""
           THEN Fail(p, built.error)
           ELSE /\ Write(p, "bulk_create",
                         [txn[p] EXCEPT !.equipment_objects = built.objects,
                                        !.inserted_eq = Range(built.objects)])
                /\ pc' = [pc EXCEPT ![p] = "inserted"]
                /\ UNCHANGED next_id
    /\ UNCHANGED <<clock, ingests_done, csv_file, csv_result, detect_vars>>

\* Equipment.dataset is a foreign key the database checks at commit
\* a database that does not enforce the foreign key
ForeignKeysUnchecked(db) == TRUE

ForeignKeysHold(db) ==
    \A e \in db.equipment : \E d \in db.datasets : d.id = e.dataset

\* return dataset: the atomic block commits
Commit(p) ==
    /\ pc[p] = "inserted"
    /\ IF ForeignKeysHold(Pending(txn[p]))
       THEN /\ Write(p, "commit", [txn[p] EXCEPT !.outcome = "ok"])
            /\ pc' = [pc EXCEPT ![p] = "idle"]
            /\ ingests_done' = ingests_done + 1
            /\ UNCHANGED next_id
       ELSE /\ Fail(p, "IntegrityError")
            /\ UNCHANGED ingests_done
    /\ UNCHANGED <<clock, csv_file, csv_result, detect_vars>>

\* CSVUploadView.post: the HTTP status of the response
response_status(outcome) ==
    CASE outcome = "ok" -> 201
      [] outcome = "CSVValidationError" -> 400
      [] OTHER -> 500

-----------------------------------------------------------------------------
\* Readers

\* DatasetManager.with_equipment_count, the queryset of the dataset list:
\* one SELECT that joins each Dataset with the count of its Equipment
with_equipment_count ==
    {[id |-> d.id, total_equipment |-> d.total_equipment,
      equipment_count |-> Cardinality({e \in equipment : e.dataset = d.id})] :
        d \in datasets}

\* the sum of f over the finite set S, f being a function on S
RECURSIVE SetSum(_, _)
SetSum(S, f) ==
    IF S = {} THEN 0
    ELSE LET x == CHOOSE y \in S : TRUE IN f[x] + SetSum(S \ {x}, f)

\* the distribution counting the distinct equipment names of each type
type_distribution_distinct_names(rows) ==
    [t \in {e.equipment_type : e \in rows} |->
        Cardinality({e.equipment_name : e \in {x \in rows : x.equipment_type = t}})]

\* Dataset.get_analytics: dict(equipment_qs.values('equipment_type')
\* .annotate(count=Count('id')).values_list('equipment_type', 'count'))
type_distribution(rows) ==
    [t \in {e.equipment_type : e \in rows} |->
        Cardinality({e \in rows : e.equipment_type = t})]

\* p <= q * sqrt(m) for integers p, q and m > 0
LeqTimesRoot(p, q, m) ==
    IF q >= 0 THEN p <= 0 \/ p * p <= q * q * m
    ELSE p <= 0 /\ p * p >= q * q * m

\* c / sqrt(m) rounded to a multiple of 1 / scale (halves to the even
\* neighbour), as the number of such units
RoundedRatio(c, m, scale) ==
    IF c = 0 THEN 0
    ELSE IF c * c = m THEN (IF c > 0 THEN scale ELSE -scale)
    ELSE LET near == {k \in (-scale)..scale :
                         /\ LeqTimesRoot(-2 * scale * c, -(2 * k - 1), m)
                         /\ LeqTimesRoot(2 * scale * c, 2 * k + 1, m)}
         IN  IF \E k \in near : k % 2 = 0
             THEN CHOOSE k \in near : k % 2 = 0
             ELSE CHOOSE k \in near : TRUE

\* the Pearson correlation pandas computes for two fields of the rows, in
\* units of 1 / scale: NaN with fewer than two rows or a field without
\* spread (0 / 0), else cov / sqrt(var_a * var_b) rounded
corr(rows, a, b, scale) ==
    LET n == Cardinality(rows)
        Sa == SetSum(rows, [e \in rows |-> e[a]])
        Sb == SetSum(rows, [e \in rows |-> e[b]])
        A == n * SetSum(rows, [e \in rows |-> e[a] * e[a]]) - Sa * Sa
        B == n * SetSum(rows, [e \in rows |-> e[b] * e[b]]) - Sb * Sb
        C == n * SetSum(rows, [e \in rows |-> e[a] * e[b]]) - Sa * Sb
    IN  IF n < 2 \/ A = 0 \/ B = 0 THEN NaN
        ELSE <<RoundedRatio(C, A * B, scale), scale>>

corr_fields == {"flowrate", "pressure", "temperature"}

\* df[['flowrate', 'pressure', 'temperature']].corr().round(2)
correlation_matrix(rows) ==
    [a \in corr_fields |-> [b \in corr_fields |-> corr(rows, a, b, 100)]]

\* round(df['pressure'].corr(df['temperature']) if len(df) > 1 else 0, 3)
pt_correlation(rows) ==
    IF Cardinality(rows) > 1 THEN corr(rows, "pressure", "temperature", 1000)
    ELSE <<0, 1000>>

\* what get_analytics returns for a Dataset with rows: the stored summary
\* fields of Dataset.get_analytics, the type distribution and the correlations
Payload(dataset, rows) ==
    [total_equipment |-> dataset.total_equipment,
     avg_flowrate |-> dataset.avg_flowrate,
     avg_pressure |-> dataset.avg_pressure,
     avg_temperature |-> dataset.avg_temperature,
     equipment_type_distribution |-> type_distribution(rows),
     pt_correlation |-> pt_correlation(rows),
     correlation_matrix |-> correlation_matrix(rows)]

\* the key total_equipment of a request that raised (no payload)
NoPayload == [total_equipment |-> 0]

\* get_analytics without the df.empty test: df['pressure'] on the frame built
\* from no rows has no such column
get_analytics_no_empty_check(dataset_id) ==
    IF ~\E d \in datasets : d.id = dataset_id
    THEN [ok |-> FALSE, raised |-> "ValueError", error |-> "Dataset not found"]
            @@ NoPayload
    ELSE LET dataset == CHOOSE d \in datasets : d.id = dataset_id
             rows == {e \in equipment : e.dataset = dataset_id}
         IN  IF rows = {}
             THEN [ok |-> FALSE, raised |-> "KeyError", error |-> "pressure"] @@ NoPayload
             ELSE [ok |-> TRUE, raised |-> "", error |-> ""] @@ Payload(dataset, rows)

\* DatasetService.get_analytics with Dataset.get_analytics;
\* dataset_id is a well-formed UUID, and both failures are a ValueError
get_analytics(dataset_id) ==
    IF ~\E d \in datasets : d.id = dataset_id
    THEN [ok |-> FALSE, raised |-> "ValueError", error |-> "Dataset not found"]
            @@ NoPayload
    ELSE LET dataset == CHOOSE d \in datasets : d.id = dataset_id
             rows == {e \in equipment : e.dataset = dataset_id}
         IN  IF rows = {}
             THEN [ok |-> FALSE, raised |-> "ValueError",
                   error |-> "Dataset has no equipment data"] @@ NoPayload
             ELSE [ok |-> TRUE, raised |-> "", error |-> ""] @@ Payload(dataset, rows)

\* DatasetViewSet.analytics: the HTTP status and the error text of the response
analytics(pk) ==
    LET analytics_data == get_analytics(pk)
    IN  IF analytics_data.ok THEN [status |-> 200, error |-> ""]
        ELSE IF analytics_data.raised = "ValueError"
        THEN [status |-> 404, error |-> analytics_data.error]
        ELSE [status |-> 500, error |-> "Internal server error"]

-----------------------------------------------------------------------------
\* EquipmentViewSet

\* sum(e.<field> for e in equipment_list) / len(equipment_list), not rounded
mean_of(rows, field) ==
    LET RECURSIVE total(_)
        total(S) == IF S = {} THEN 0
                    ELSE LET e == CHOOSE x \in S : TRUE IN e[field] + total(S \ {e})
    IN  <<total(rows), Cardinality(rows)>>

\* the statistics destroy writes into the Dataset of the deleted row
recalculated(dataset, equipment_list) ==
    IF equipment_list # {}
    THEN [dataset EXCEPT !.total_equipment = Cardinality(equipment_list),
                         !.avg_flowrate = mean_of(equipment_list, "flowrate"),
                         !.avg_pressure = mean_of(equipment_list, "pressure"),
                         !.avg_temperature = mean_of(equipment_list, "temperature")]
    ELSE [dataset EXCEPT !.total_equipment = 0,
                         !.avg_flowrate = <<>>,
                         !.avg_pressure = <<>>,
                         !.avg_temperature = <<>>]

\* the bodies of the update requests (PATCH of the type and the flowrate)
UpdateData ==
    {[equipment_type |-> "Valve", flowrate |-> 3],
     [equipment_type |-> "sprinkler", flowrate |-> 3],
     [equipment_type |-> "Pump", flowrate |-> -5]}

\* serializer.is_valid: the type is one of the choices, and the
\* MinValueValidator(0) of the model field holds for the flowrate
is_valid(data) == data.equipment_type \in valid_types /\ data.flowrate >= 0

\* serializer.save(): the fields of the request written into the row; the
\* outlier flags are read-only and stay
perform_update(instance, data) ==
    [instance EXCEPT !.equipment_type = data.equipment_type, !.flowrate = data.flowrate]

\* update keeping the averages of the Dataset as they are
averages_not_recalculated(dataset, equipment_list) == dataset

\* the statistics update writes into the Dataset of the changed row: the
\* three averages, and not total_equipment
recalculated_averages(dataset, equipment_list) ==
    IF equipment_list # {}
    THEN [dataset EXCEPT !.avg_flowrate = mean_of(equipment_list, "flowrate"),
                         !.avg_pressure = mean_of(equipment_list, "pressure"),
                         !.avg_temperature = mean_of(equipment_list, "temperature")]
    ELSE dataset

\* EquipmentViewSet.update while no other request is in flight: a request
\* that fails validation is answered 400 and changes nothing
UpdateEquipment ==
    /\ \A p \in DOMAIN pc : pc[p] = "idle"
    /\ \E instance \in equipment, data \in UpdateData :
          IF ~is_valid(data)
          THEN UNCHANGED <<datasets, equipment>>
          ELSE LET dataset == CHOOSE d \in datasets : d.id = instance.dataset
                   updated == perform_update(instance, data)
                   rows == (equipment \ {instance}) \cup {updated}
                   equipment_list == {e \in rows : e.dataset = dataset.id}
               IN  /\ equipment' = rows
                   /\ datasets' = (datasets \ {dataset})
                                     \cup {recalculated_averages(dataset, equipment_list)}
    /\ UNCHANGED <<clock, next_id, pc, txn, ingests_done, csv_file, csv_result, detect_vars>>

\* EquipmentViewSet.destroy while no upload is in flight: instance.delete(),
\* then the statistics of its Dataset recomputed from the rows left and saved
\* (an UPDATE, so the post_save hook sees created=False and does nothing)
DestroyEquipment ==
    /\ \A p \in DOMAIN pc : pc[p] = "idle"
    /\ \E instance \in equipment :
          LET dataset == CHOOSE d \in datasets : d.id = instance.dataset
              equipment_list == {e \in equipment \ {instance} : e.dataset = dataset.id}
          IN  /\ equipment' = equipment \ {instance}
              /\ datasets' = (datasets \ {dataset})
                                \cup {recalculated(dataset, equipment_list)}
    /\ UNCHANGED <<clock, next_id, pc, txn, ingests_done, csv_file, csv_result, detect_vars>>

-----------------------------------------------------------------------------
\* Upload requests served one at a time

Init ==
    /\ datasets = {}
    /\ equipment = {}
    /\ clock = 0
    /\ next_id = 0
    /\ pc = [p \in Uploaders |-> "idle"]
    /\ txn = [p \in Uploaders |-> NoTxn]
    /\ ingests_done = 0
    /\ csv_file = ZeroByteFile
    /\ csv_result = NotRun
    /\ DetectNotRun

Next ==
    \/ \E p \in Uploaders : Validate(p, UploadFiles(MaxRows), MaxIngests)
    \/ \E p \in Uploaders : CreateDataset(p)
    \/ \E p \in Uploaders : BulkCreateEquipment(p)
    \/ \E p \in Uploaders : Commit(p)

\* many uploads of short files: the retention window fills and evicts
Spec == Init /\ [][Next]_vars

IngestNext ==
    \/ \E p \in Uploaders : Validate(p, UploadFiles(MaxFileRows), MaxUploads)
    \/ \E p \in Uploaders : CreateDataset(p)
    \/ \E p \in Uploaders : BulkCreateEquipment(p)
    \/ \E p \in Uploaders : Commit(p)

\* a few uploads of longer files: rows dropped anywhere in the file
SpecIngest == Init /\ [][IngestNext]_vars

\* files whose Flowrate cells are numerals of either sign
EquipmentCells ==
    [c \in Range(REQUIRED_COLUMNS) |->
        CASE c = "Equipment Name" -> {"P-1"}
          [] c = "Type" -> {"Pump"}
          [] c = "Flowrate" -> {"1", "-5"}
          [] c = "Pressure" -> {"3"}
          [] c = "Temperature" -> {"10"}]

EquipmentFiles(maxRows) ==
    TableFiles({Range(REQUIRED_COLUMNS)}, EquipmentCells, maxRows)

EquipmentNext ==
    \/ \E p \in Uploaders : Validate(p, EquipmentFiles(MaxEquipmentRows), MaxUploads)
    \/ \E p \in Uploaders : CreateDataset(p)
    \/ \E p \in Uploaders : BulkCreateEquipment(p)
    \/ \E p \in Uploaders : Commit(p)
    \/ DestroyEquipment

\* the files uploaded between runs of the cleanup command: no bytes, one
\* numeric row, one row without a number
CleanupFiles == UploadFiles(1)

\* upload requests served by two workers at the same time
ConcurrentUploaders == {1, 2}

\* the files of concurrent uploads: no bytes, or one numeric row
ConcurrentFiles ==
    {f \in UploadFiles(1) : f.rows = <<>> \/ validate_csv(f).ok}

ConcurrentInit ==
    /\ datasets = {}
    /\ equipment = {}
    /\ clock = 0
    /\ next_id = 0
    /\ pc = [p \in ConcurrentUploaders |-> "idle"]
    /\ txn = [p \in ConcurrentUploaders |-> NoTxn]
    /\ ingests_done = 0
    /\ csv_file = ZeroByteFile
    /\ csv_result = NotRun
    /\ DetectNotRun

ConcurrentNext ==
    \/ \E p \in ConcurrentUploaders : Validate(p, ConcurrentFiles, MaxIngests)
    \/ \E p \in ConcurrentUploaders : InsertDataset(p)
    \/ \E p \in ConcurrentUploaders : HookDelete(p)
    \/ \E p \in ConcurrentUploaders : BulkCreateEquipment(p)
    \/ \E p \in ConcurrentUploaders : Commit(p)

\* two upload requests whose statements interleave
SpecConcurrent == ConcurrentInit /\ [][ConcurrentNext]_vars

CleanupNext ==
    \/ \E p \in Uploaders : Validate(p, CleanupFiles, MaxIngests)
    \/ \E p \in Uploaders : CreateDataset(p)
    \/ \E p \in Uploaders : BulkCreateEquipment(p)
    \/ \E p \in Uploaders : Commit(p)
    \/ \E limit \in CleanupLimits, dry_run \in BOOLEAN : cleanup_old_datasets(limit, dry_run)

\* uploads served one at a time, and runs of the cleanup command between them
SpecCleanup == Init /\ [][CleanupNext]_vars

\* the uploads of SpecEdit: a Dataset to edit and a second one beside it
EditUploads == 2

EditNext ==
    \/ \E p \in Uploaders : Validate(p, EquipmentFiles(MaxEditRows), EditUploads)
    \/ \E p \in Uploaders : CreateDataset(p)
    \/ \E p \in Uploaders : BulkCreateEquipment(p)
    \/ \E p \in Uploaders : Commit(p)
    \/ UpdateEquipment
    \/ DestroyEquipment

\* uploads of files of several rows, and updates and deletions of their
\* Equipment rows, one request at a time
SpecEdit == Init /\ [][EditNext]_vars

\* Type cells inside and outside the enumeration; "" is a missing cell,
\* which read_csv returns as NaN
CategoryCells ==
    [c \in Range(REQUIRED_COLUMNS) |->
        CASE c = "Equipment Name" -> {"P-1"}
          [] c = "Type" -> {"Pump", "Valve", "sprinkler", ""}
          [] c = "Flowrate" -> {"1"}
          [] c = "Pressure" -> {"3"}
          [] c = "Temperature" -> {"10"}]

CategoryFiles(maxRows) == TableFiles({Range(REQUIRED_COLUMNS)}, CategoryCells, maxRows)

CategoryUploads == 1

CategoryNext ==
    \/ \E p \in Uploaders : Validate(p, CategoryFiles(MaxTypeRows), CategoryUploads)
    \/ \E p \in Uploaders : CreateDataset(p)
    \/ \E p \in Uploaders : BulkCreateEquipment(p)
    \/ \E p \in Uploaders : Commit(p)

\* one upload of a file whose Type cells vary
SpecCategory == Init /\ [][CategoryNext]_vars

\* one upload more than the retention limit keeps
OwnershipUploads == KeepLimit + 1

OwnershipNext ==
    \/ \E p \in Uploaders : Validate(p, CleanupFiles, OwnershipUploads)
    \/ \E p \in Uploaders : CreateDataset(p)
    \/ \E p \in Uploaders : BulkCreateEquipment(p)
    \/ \E p \in Uploaders : Commit(p)
    \/ \E limit \in CleanupLimits, dry_run \in BOOLEAN : cleanup_old_datasets(limit, dry_run)
    \/ UpdateEquipment
    \/ DestroyEquipment

\* uploads with their retention pass, runs of the cleanup command, and
\* updates and deletions of single Equipment rows
SpecOwnership == Init /\ [][OwnershipNext]_vars

\* ---- EquipmentViewSet.update and destroy, statement by statement ----
\* The two views run outside any transaction: every statement commits on
\* its own, and requests of other clients run between the statements.

Editors == {2, 3}

\* the claim is about two requests: each editor serves one
RequestsPerEditor == 1

InterleavedUploads == 1

EditRequests ==
    {[op |-> "destroy", data |-> <<>>]}
        \cup {[op |-> "update", data |-> data] : data \in UpdateData}

NoRequest ==
    [op |-> "none", data |-> <<>>, instance |-> <<>>, dataset |-> <<>>,
     equipment_list |-> {}, requests |-> 0]

InterleavedInit ==
    /\ datasets = {}
    /\ equipment = {}
    /\ clock = 0
    /\ next_id = 0
    /\ pc = [p \in Uploaders \cup Editors |-> "idle"]
    /\ txn = [p \in Uploaders \cup Editors |->
                 IF p \in Uploaders THEN NoTxn ELSE NoRequest]
    /\ ingests_done = 0
    /\ csv_file = ZeroByteFile
    /\ csv_result = NotRun
    /\ DetectNotRun

\* instance = self.get_object(), with the Dataset row joined by
\* select_related, then serializer.is_valid(raise_exception=True) for update
GetObject(p) ==
    /\ pc[p] = "idle"
    /\ txn[p].requests < RequestsPerEditor
    /\ \E instance \in equipment, request \in EditRequests :
          IF request.op = "update" /\ ~is_valid(request.data)
          THEN /\ txn' = [txn EXCEPT ![p].requests = @ + 1]
               /\ pc' = pc
          ELSE /\ txn' = [txn EXCEPT ![p] =
                             [op |-> request.op, data |-> request.data,
                              instance |-> instance,
                              dataset |-> CHOOSE d \in datasets : d.id = instance.dataset,
                              equipment_list |-> {},
                              requests |-> txn[p].requests]]
               /\ pc' = [pc EXCEPT ![p] = "loaded"]
    /\ UNCHANGED <<datasets, equipment, clock, next_id, ingests_done, csv_file, csv_result, detect_vars>>

\* self.perform_update(serializer): Model.save() updates the row by primary
\* key and inserts it when no row matched; instance.delete() deletes by
\* primary key and is silent when the row is gone
WriteInstance(p) ==
    /\ pc[p] = "loaded"
    /\ LET others == {e \in equipment : e.id # txn[p].instance.id}
       IN  equipment' = IF txn[p].op = "update"
                        THEN others \cup {perform_update(txn[p].instance, txn[p].data)}
                        ELSE others
    /\ pc' = [pc EXCEPT ![p] = "written"]
    /\ UNCHANGED <<datasets, clock, next_id, txn, ingests_done, csv_file, csv_result, detect_vars>>

\* equipment_list = dataset.equipment.all(), evaluated once by `if
\* equipment_list:` and cached for the sums
ReadEquipmentList(p) ==
    /\ pc[p] = "written"
    /\ txn' = [txn EXCEPT ![p].equipment_list =
                  {e \in equipment : e.dataset = txn[p].dataset.id}]
    /\ pc' = [pc EXCEPT ![p] = "read"]
    /\ UNCHANGED <<datasets, equipment, clock, next_id, ingests_done, csv_file, csv_result, detect_vars>>

\* dataset.save() writes every field of the Dataset loaded by get_object
SaveDataset(p) ==
    /\ pc[p] = "read"
    /\ LET r == txn[p]
           saved == IF r.op = "update"
                    THEN recalculated_averages(r.dataset, r.equipment_list)
                    ELSE recalculated(r.dataset, r.equipment_list)
       IN  datasets' = IF r.op = "update" /\ r.equipment_list = {}
                       THEN datasets
                       ELSE {d \in datasets : d.id # saved.id} \cup {saved}
    /\ txn' = [txn EXCEPT ![p] = [NoRequest EXCEPT !.requests = txn[p].requests + 1]]
    /\ pc' = [pc EXCEPT ![p] = "idle"]
    /\ UNCHANGED <<equipment, clock, next_id, ingests_done, csv_file, csv_result, detect_vars>>

InterleavedNext ==
    \/ \E p \in Uploaders : Validate(p, EquipmentFiles(MaxEditRows), InterleavedUploads)
    \/ \E p \in Uploaders : CreateDataset(p)
    \/ \E p \in Uploaders : BulkCreateEquipment(p)
    \/ \E p \in Uploaders : Commit(p)
    \/ \E p \in Editors : GetObject(p)
    \/ \E p \in Editors : WriteInstance(p)
    \/ \E p \in Editors : ReadEquipmentList(p)
    \/ \E p \in Editors : SaveDataset(p)

\* one upload, then two clients editing its Equipment rows at the same time
SpecInterleaved == InterleavedInit /\ [][InterleavedNext]_vars

\* a few uploads, and deletions of single Equipment rows
SpecEquipment == Init /\ [][EquipmentNext]_vars

-----------------------------------------------------------------------------
\* Properties

NoValidRowsMessage == "CSV validation failed: No valid data rows found after cleaning"

MissingColumnsMessage == "CSV validation failed: Missing required columns: "

EmptyFileMessage == "CSV file is empty"

\* C1: with upload requests served one after another, the number of stored
\* Datasets is min(k, 5), k being the number of uploads that returned a
\* Dataset so far; a sixth upload onto five leaves five.
C1_CountIsMinOfIngestsAndFive ==
    Cardinality(datasets) = Min(ingests_done, 5)

C1_SixthIngestLeavesFive ==
    /\ ingests_done >= 6
    /\ Cardinality(datasets) = 5
    /\ \E p \in DOMAIN txn : txn[p].outcome = "ok" /\ pc[p] = "idle"

\* C2: the retention hook never deletes the Dataset whose creation triggered
\* it, also when that Dataset's uploaded_at equals the uploaded_at of stored
\* Datasets, and after a successful upload the new Dataset is stored.
C2_NeverEvictsJustCreated ==
    \A p \in DOMAIN txn :
        /\ txn[p].dataset_id \notin txn[p].deleted
        /\ (pc[p] = "idle" /\ txn[p].outcome = "ok")
                => \E d \in datasets : d.id = txn[p].dataset_id

\* C3: whatever step an upload request is at, the dataset list a reader
\* fetches shows every Dataset with exactly total_equipment Equipment rows,
\* never a Dataset whose rows are absent or partly written.
C3_ReadersSeeCompleteDatasets ==
    \A r \in with_equipment_count : r.equipment_count = r.total_equipment

C3_ReaderDuringIngest ==
    \E p \in DOMAIN pc :
        /\ pc[p] = "created"
        /\ txn[p].created # {}
        /\ with_equipment_count # {}

\* C4: an upload of a file that validate_csv accepts returns a Dataset; it
\* never ends in an error (the only error of an upload is the validation
\* error of a file that validate_csv rejects).
C4_AcceptedFileIsIngested ==
    \A p \in DOMAIN txn :
        (pc[p] = "idle" /\ txn[p].outcome # "none" /\ validate_csv(txn[p].file).ok)
            => txn[p].outcome = "ok"

\* C5: an upload of a file that validate_csv accepts builds one Equipment
\* per validated row, the j-th carrying the j-th element of the detector's
\* output over the validated Pressure and Temperature columns, also when
\* earlier rows of the file were dropped.
C5_FlagsAtValidatedRowPosition ==
    \A p \in DOMAIN txn :
        (pc[p] = "idle" /\ txn[p].outcome # "none" /\ validate_csv(txn[p].file).ok)
            => LET df == validate_csv(txn[p].file).df
                   p_flags == detect_outliers(Column(df, "Pressure"), 2)
                   t_flags == detect_outliers(Column(df, "Temperature"), 2)
                   built == txn[p].equipment_objects
               IN  /\ Len(built) = Len(df)
                   /\ \A j \in 1..Len(df) :
                        /\ built[j].is_pressure_outlier = p_flags[j]
                        /\ built[j].is_temperature_outlier = t_flags[j]

CoercesToNumber(row) ==
    \A c \in {"Flowrate", "Pressure", "Temperature"} : row[c] \in DOMAIN NumberTexts

\* C6: on a file with all five columns validate_csv returns exactly the rows
\* whose Flowrate, Pressure and Temperature cells are numerals, in file order
\* with name and numbers unchanged, and raises the no-valid-rows error if and
\* only if no row is left.
C6_KeepsExactlyNumericRows ==
    (csv_result # NotRun /\ csv_file.kind = "table"
        /\ Range(REQUIRED_COLUMNS) \subseteq csv_file.header)
        => LET kept == SelectSeq(csv_file.rows, CoercesToNumber)
           IN  /\ csv_result.ok <=> kept # <<>>
               /\ ~csv_result.ok => csv_result.message = NoValidRowsMessage
               /\ csv_result.ok =>
                    /\ Len(csv_result.df) = Len(kept)
                    /\ \A j \in 1..Len(kept) :
                         /\ csv_result.df[j].row["Equipment Name"] = kept[j]["Equipment Name"]
                         /\ \A c \in {"Flowrate", "Pressure", "Temperature"} :
                              csv_result.df[j].row[c] = <<NumberTexts[kept[j][c]]>>

C6_EarlierRowDropped ==
    /\ csv_result.ok
    /\ Len(csv_result.df) >= 2
    /\ Len(csv_result.df) < Len(csv_file.rows)
    /\ ~CoercesToNumber(csv_file.rows[1])

\* C7: after a successful upload, analytics of the new Dataset report a
\* total_equipment equal to the number of validated rows of the file and to
\* the number of Equipment rows stored for the Dataset.
C7_AnalyticsCountsValidatedRows ==
    \A p \in DOMAIN txn :
        (pc[p] = "idle" /\ txn[p].outcome = "ok")
            => LET a == get_analytics(txn[p].dataset_id)
               IN  /\ a.ok
                   /\ a.total_equipment = Len(validate_csv(txn[p].file).df)
                   /\ a.total_equipment =
                        Cardinality({e \in equipment : e.dataset = txn[p].dataset_id})

C7_IngestWithDroppedRow ==
    \E p \in DOMAIN txn :
        /\ pc[p] = "idle"
        /\ txn[p].outcome = "ok"
        /\ get_analytics(txn[p].dataset_id).total_equipment < Len(txn[p].file.rows)

C9_SchemaErrorNamesEveryMissingColumn ==
    (csv_result # NotRun /\ csv_file.kind = "table")
        => LET missing == Range(REQUIRED_COLUMNS) \ csv_file.header
           IN  IF missing # {}
               THEN /\ ~csv_result.ok
                    /\ csv_result.message = MissingColumnsMessage
                    /\ Range(csv_result.columns) = missing
               ELSE csv_result.message # MissingColumnsMessage

C9_SeveralColumnsMissing ==
    /\ csv_result # NotRun
    /\ csv_file.kind = "table"
    /\ "Pressure" \notin csv_file.header
    /\ Cardinality(Range(REQUIRED_COLUMNS) \ csv_file.header) >= 2
    /\ csv_result.message = MissingColumnsMessage

\* C10: on a file with a complete header and no data rows validate_csv raises
\* the empty-input error, which differs from the no-valid-rows error.
C10_HeaderOnlyIsEmptyInput ==
    (csv_result # NotRun /\ csv_file.kind = "table"
        /\ Range(REQUIRED_COLUMNS) \subseteq csv_file.header
        /\ csv_file.rows = <<>>)
        => /\ ~csv_result.ok
           /\ csv_result.message = EmptyFileMessage
           /\ csv_result.message # NoValidRowsMessage

\* the spellings of "pump" in the files of SpecType: letter case and
\* surrounding whitespace vary
PumpSpellings == {"Pump", "pump", "PUMP", " Pump "}

\* C11: validate_csv normalizes a Type that spells "pump" in any letter case
\* and with any surrounding whitespace to Pump, and a Type that matches no
\* category, such as "sprinkler", to Other.
C11_TypeTrimmedAndCased ==
    (csv_result # NotRun /\ csv_result.ok)
        => \A j \in 1..Len(csv_result.df) :
              csv_result.df[j].row["Type"] =
                  IF csv_file.rows[j]["Type"] \in PumpSpellings THEN "Pump" ELSE "Other"

\* C12: every stored Equipment row has flowrate >= 0 and pressure >= 0,
\* whatever numerals the uploaded files contained.
C12_StoredMeasurementsNonNegative ==
    \A e \in equipment : e.flowrate >= 0 /\ e.pressure >= 0

\* C13: for a column of fewer than 3 values, the empty column included,
\* detect_outliers returns a sequence of the same length with every entry
\* false.
C13_FewerThanThreeAllFalse ==
    (det_result.done /\ Len(det_values) < 3)
        => /\ Len(det_result.outliers) = Len(det_values)
           /\ \A i \in 1..Len(det_values) : det_result.outliers[i] = FALSE

C13_TwoDistinctValues ==
    /\ det_result.done
    /\ Len(det_values) = 2
    /\ det_values[1] # det_values[2]
    /\ det_threshold = 0

\* C14: for a column whose values are all equal, of any length,
\* detect_outliers returns every entry false.
C14_EqualValuesAllFalse ==
    (det_result.done /\ \A i, j \in 1..Len(det_values) : det_values[i] = det_values[j])
        => /\ Len(det_result.outliers) = Len(det_values)
           /\ \A i \in 1..Len(det_values) : det_result.outliers[i] = FALSE

C14_LongEqualColumn ==
    /\ det_result.done
    /\ Len(det_values) >= 3
    /\ \A i \in 1..Len(det_values) : det_values[i] = det_values[1]

\* C15 as stated: for the values [10, 10, 10, 10, 100] and threshold 2,
\* detect_outliers flags the 100 entry and no other entry.
C15_FlagsTheHundred ==
    (det_result.done /\ det_values = <<10, 10, 10, 10, 100>> /\ det_threshold = 2)
        => det_result.outliers = <<FALSE, FALSE, FALSE, FALSE, TRUE>>

\* C15 amended: for the values [10, 10, 10, 10, 100] and threshold 2,
\* detect_outliers flags no entry (the z-score of 100 is 4 / sqrt(5) < 2).
C15_FlagsNothing ==
    (det_result.done /\ det_values = <<10, 10, 10, 10, 100>> /\ det_threshold = 2)
        => det_result.outliers = <<FALSE, FALSE, FALSE, FALSE, FALSE>>

C15_FourTensOneHundred ==
    /\ det_result.done
    /\ det_values = <<10, 10, 10, 10, 100>>
    /\ det_threshold = 2

\* C16: for a column of n >= 3 values that are not all equal, detect_outliers
\* returns n entries, entry i being true exactly when |value[i] - mean| / std
\* is strictly greater than the threshold, std being the sample standard
\* deviation (divisor n - 1).  With d[j] = n * value[j] - sum, that is
\* d[i]^2 * (n - 1) > threshold^2 * (d[1]^2 + ... + d[n]^2).
C16_FlagIffSampleZScoreAboveThreshold ==
    (/\ det_result.done
     /\ Len(det_values) >= 3
     /\ \E i, j \in 1..Len(det_values) : det_values[i] # det_values[j])
        => LET n == Len(det_values)
               d == [j \in 1..n |-> n * det_values[j] - SumSeq(det_values)]
               squares == SumSeq([j \in 1..n |-> d[j] * d[j]])
           IN  /\ Len(det_result.outliers) = n
               /\ \A i \in 1..n :
                     det_result.outliers[i]
                        <=> d[i] * d[i] * (n - 1) > det_threshold * det_threshold * squares

C16_ZScoreEqualToThreshold ==
    /\ det_result.done
    /\ det_values = <<10, 55, 100>>
    /\ det_threshold = 1
    /\ det_result.outliers = <<FALSE, FALSE, FALSE>>

\* C17: a retention pass run a second time, with no commit in between,
\* deletes nothing: after the post_save hook ran in an upload, its delete
\* step run again on what the upload sees changes nothing, and after a run of
\* cleanup_old_datasets a second run with the same limit finds no Dataset to
\* delete.
C17_RetentionPassIdempotent ==
    /\ [](\A p \in DOMAIN pc :
            pc[p] \in {"created", "inserted"}
                => \A keep \in datasets_to_keep(VisibleDatasets(txn[p])) :
                      maintain_dataset_limit(txn[p], TRUE, keep) = txn[p])
    /\ [][\A limit \in CleanupLimits :
            cleanup_old_datasets(limit, FALSE)
                => \A gone \in datasets_to_delete(datasets', limit) : gone = {}]_vars

C17_CleanupTrimmedStore ==
    /\ \A p \in DOMAIN pc : pc[p] = "idle"
    /\ ingests_done >= 3
    /\ Cardinality(datasets) = 2

\* C18: retention deletes only Datasets outside the five most recent: in
\* every interleaving of uploads, a Dataset that leaves the store has five
\* others at least as recent among the Datasets stored before or after the
\* step.
C18_RetentionNeverDeletesRecent ==
    [][\A d \in datasets \ datasets' :
          Cardinality({x \in (datasets \cup datasets') \ {d} :
                          x.uploaded_at >= d.uploaded_at}) >= KeepLimit]_vars

\* C19: with concurrent uploads the number of stored Datasets never exceeds
\* 6, and when no upload is in flight it is at most 5.
C19_AtMostOneExtraWhileInFlight ==
    /\ Cardinality(datasets) <= KeepLimit + 1
    /\ (\A p \in DOMAIN pc : pc[p] = "idle") => Cardinality(datasets) <= KeepLimit

C21_CorrelationDiagonalIsOne ==
    \A p \in DOMAIN txn :
        (pc[p] = "idle" /\ txn[p].outcome = "ok")
            => LET a == get_analytics(txn[p].dataset_id)
               IN  /\ a.ok
                   /\ \A f \in corr_fields : a.correlation_matrix[f][f] = <<100, 100>>

\* C22: for every stored Dataset with Equipment rows, the counts of the
\* type distribution its analytics return add up to the number of its rows,
\* after any sequence of uploads, equipment updates and equipment deletions.
C22_TypeDistributionSumsToRowCount ==
    \A d \in datasets :
        LET a == get_analytics(d.id)
            dist == a.equipment_type_distribution
        IN  a.ok => SetSum(DOMAIN dist, dist)
                        = Cardinality({e \in equipment : e.dataset = d.id})

C22_SeveralRowsAfterUpdate ==
    \E d \in datasets :
        LET rows == {e \in equipment : e.dataset = d.id}
        IN  /\ Cardinality(rows) >= 2
            /\ \E e \in rows : e.equipment_type = "Valve" /\ e.flowrate = 3
            /\ get_analytics(d.id).ok

\* C23: analytics never return an undefined correlation: no cell of the
\* correlation matrix and no pressure-temperature correlation is NaN (a cell
\* without a defined value is 0), and the pressure-temperature correlation is
\* 0 for a Dataset of fewer than 2 rows.
C23_NoUndefinedCorrelation ==
    \A d \in datasets :
        LET a == get_analytics(d.id)
        IN  a.ok => /\ a.pt_correlation # NaN
                    /\ \A f, g \in corr_fields : a.correlation_matrix[f][g] # NaN
                    /\ Cardinality({e \in equipment : e.dataset = d.id}) < 2
                            => a.pt_correlation = <<0, 1000>>

\* the fractions a and b are the same number
SameNumber(a, b) == a[1] * b[2] = b[1] * a[2]

\* C25: with uploads, equipment updates and equipment deletions served one
\* at a time, every Dataset's total_equipment is the number of its Equipment
\* rows and each stored average is the mean of the rows' values, exactly or
\* rounded to 2 decimals as at upload; a Dataset without rows has total 0
\* and null averages.
C25_StoredSummaryMatchesRows ==
    (\A p \in DOMAIN pc : pc[p] = "idle")
        => \A d \in datasets :
              LET rows == {e \in equipment : e.dataset = d.id}
                  n == Cardinality(rows)
                  Matches(stored, field) ==
                      IF n = 0 THEN stored = <<>>
                      ELSE /\ stored # <<>>
                           /\ \/ SameNumber(stored, mean_of(rows, field))
                              \/ stored = Round2(mean_of(rows, field)[1], n)
              IN  /\ d.total_equipment = n
                  /\ Matches(d.avg_flowrate, "flowrate")
                  /\ Matches(d.avg_pressure, "pressure")
                  /\ Matches(d.avg_temperature, "temperature")

C25_UpdatedAndEmptiedDatasets ==
    /\ \E d \in datasets :
          /\ d.total_equipment = 0
          /\ d.avg_flowrate = <<>>
          /\ ~\E e \in equipment : e.dataset = d.id
    /\ \E d \in datasets :
          \E e \in equipment :
              e.dataset = d.id /\ e.flowrate = 3 /\ d.total_equipment = 2

\* the stored summary of Dataset d is that of its current Equipment rows
SummaryMatchesRows(d) ==
    LET rows == {e \in equipment : e.dataset = d.id}
        n == Cardinality(rows)
        Matches(stored, field) ==
            IF n = 0 THEN stored = <<>>
            ELSE /\ stored # <<>>
                 /\ \/ SameNumber(stored, mean_of(rows, field))
                    \/ stored = Round2(mean_of(rows, field)[1], n)
    IN  /\ d.total_equipment = n
        /\ Matches(d.avg_flowrate, "flowrate")
        /\ Matches(d.avg_pressure, "pressure")
        /\ Matches(d.avg_temperature, "temperature")

\* C26: once two interleaved update or delete requests on the same Dataset
\* have both completed, the Dataset's stored total_equipment and averages
\* are those of its final Equipment rows.
C26_InterleavedEditsLeaveNoStaleSummary ==
    (\A p \in DOMAIN pc : pc[p] = "idle")
        => \A d \in datasets :
              (\A p \in Editors : txn[p].requests > 0) => SummaryMatchesRows(d)

\* C24: the total and the three averages that analytics return for a Dataset
\* are those of its current Equipment rows (the averages exactly or rounded
\* to 2 decimals), whatever the Dataset's stored summary fields hold.
C24_AnalyticsSummaryIsLive ==
    \A d \in datasets :
        LET a == get_analytics(d.id)
            live == [d EXCEPT !.total_equipment = a.total_equipment,
                              !.avg_flowrate = a.avg_flowrate,
                              !.avg_pressure = a.avg_pressure,
                              !.avg_temperature = a.avg_temperature]
        IN  a.ok => SummaryMatchesRows(live)

\* C27: within one upload the retention pass runs only after the new
\* Dataset and all of its Equipment rows are persisted: while the Dataset
\* record exists and its Equipment is not yet inserted, the upload has
\* deleted no Dataset.
C27_RetentionAfterPersist ==
    \A p \in DOMAIN pc : pc[p] = "created" => txn[p].deleted = {}

\* every Equipment row names exactly one stored Dataset
OwnedByOneDataset ==
    \A e \in equipment : Cardinality({d \in datasets : d.id = e.dataset}) = 1

\* a step that removes Datasets removes no Equipment row of a Dataset that
\* stays
RemovalLeavesOthers ==
    LET gone == {d.id : d \in datasets} \ {d.id : d \in datasets'}
    IN  gone # {} => \A e \in equipment : e.dataset \notin gone => e \in equipment'

\* C28: after any sequence of uploads, retention passes, equipment updates
\* and deletions every stored Equipment row belongs to exactly one Dataset
\* that still exists, and deleting or evicting Datasets leaves the Equipment
\* of the other Datasets untouched.
C28_EquipmentOwnedByExistingDataset ==
    []OwnedByOneDataset /\ [][RemovalLeavesOthers]_vars

C28_EvictedWithEquipment ==
    /\ Cardinality(datasets) = KeepLimit
    /\ next_id > KeepLimit
    /\ equipment # {}
    /\ \A e \in equipment : \E d \in datasets : d.id = e.dataset
    /\ \E i \in 1..next_id : \A d \in datasets : d.id # i

\* C29: every Equipment row persisted by an upload has an equipment_type of
\* the enumeration; a Type cell outside it, a missing cell included, is
\* stored as Other, a cell inside it as it is, and no upload with data
\* rows is rejected for its Type cells.
C29_StoredCategoryInClosedSet ==
    /\ \A e \in equipment : e.equipment_type \in valid_types
    /\ \A p \in DOMAIN txn :
          (pc[p] = "idle" /\ txn[p].outcome # "none" /\ Len(txn[p].file.rows) > 0)
              => /\ txn[p].outcome = "ok"
                 /\ \A j \in 1..Len(txn[p].file.rows) :
                       \E e \in equipment :
                          /\ e.id = <<txn[p].dataset_id, j>>
                          /\ e.equipment_type =
                                IF txn[p].file.rows[j]["Type"] \in valid_types
                                THEN txn[p].file.rows[j]["Type"]
                                ELSE "Other"

C29_MissingAndUnknownStoredAsOther ==
    \E p \in DOMAIN txn :
        /\ pc[p] = "idle"
        /\ txn[p].outcome = "ok"
        /\ {txn[p].file.rows[j]["Type"] : j \in 1..Len(txn[p].file.rows)}
              = {"", "sprinkler", "Valve"}
        /\ {e.equipment_type : e \in equipment} = {"Other", "Valve"}

\* the validated rows of a file whose Pressure column holds the values and
\* whose Temperature column holds them in reverse order
FrameOf(values) ==
    [i \in 1..Len(values) |->
        [idx |-> i - 1,
         row |-> [c \in Range(REQUIRED_COLUMNS) |->
                     CASE c = "Equipment Name" -> "P-1"
                       [] c = "Type" -> "Pump"
                       [] c = "Flowrate" -> <<1>>
                       [] c = "Pressure" -> <<values[i]>>
                       [] c = "Temperature" -> <<values[Len(values) + 1 - i]>>]]]

\* C30: with the threshold 2.0 detect_outliers flags no entry of an input of
\* fewer than 6 values, so no Equipment built from at most 5 validated rows
\* carries an outlier flag.
C30_NoOutlierBelowSixValues ==
    (det_result.done /\ det_threshold = threshold_default /\ Len(det_values) < 6)
        => /\ \A i \in 1..Len(det_values) : det_result.outliers[i] = FALSE
           /\ LET built == equipment_objects(FrameOf(det_values), 1)
              IN  /\ built.error = ""
                  /\ \A i \in 1..Len(det_values) :
                        /\ ~built.objects[i].is_pressure_outlier
                        /\ ~built.objects[i].is_temperature_outlier

C30_FourHundredsOneTen ==
    /\ det_result.done
    /\ det_threshold = threshold_default
    /\ det_values = <<100, 100, 100, 100, 10>>
    /\ det_result.outliers = <<FALSE, FALSE, FALSE, FALSE, FALSE>>

====
